---- MODULE Spec2Model ----
(***************************************************************************)
(* State graph of tic-tac-toe (src/src/main.rs): the depth-first builder   *)
(* build_next_states_recursively, which deduplicates positions through a   *)
(* registry, and the label propagator build_info_recursively, which fixes  *)
(* a node's GameStateInfo once all its children carry one and cascades to  *)
(* the node's parents.                                                     *)
(***************************************************************************)
EXTENDS Integers, Sequences, FiniteSets, TLC

(***************************************************************************)
(* Bounds of the model.                                                    *)
(***************************************************************************)
\* Step-wise exploration (Spec) starts from every position of
\* legal play that has at most this many empty cells.
MaxEmpty == 3
\* Exploration run as one step (SpecMain) starts from the empty board and
\* from every position of legal play with at most this many empty cells.
MaxEmptyMain == 2
\* Exploration with the actions taken in any order (SpecShuffle) starts from
\* every position of legal play with at most this many empty cells.
MaxEmptyShuffle == 3

(***************************************************************************)
(* Player, GameState, Action, GameStateInfo, Progress.                     *)
(***************************************************************************)
You == "You"
Opponent == "Opponent"
Player == {You, Opponent}

\* Option::None, for a cell (Option<Player>) and for info (Option<GameStateInfo>).
None == "None"

opposite(p) == IF p = You THEN Opponent ELSE You

\* Board side; rows and columns are 0 .. Side-1.
Side == 3
Idx == 0 .. (Side - 1)

GameState(b, t) == [board |-> b, turn |-> t]

Action(r, c) == [row |-> r, col |-> c]

\* All actions in ascending (row, col) order, the order of the nested loops
\* of possible_actions.
AllActions == [k \in 1 .. (Side * Side) |-> Action((k - 1) \div Side, (k - 1) % Side)]

GameStateInfo == {"W", "WD", "WDL", "WL", "D", "DL", "L"}

Draw == <<"Draw">>
Ongoing == <<"Ongoing">>
Win(p) == <<"Win", p>>

IsWin(pr) == pr[1] = "Win"

RowLine(b, i) == b[i][0] # None /\ b[i][0] = b[i][1] /\ b[i][0] = b[i][2]
ColLine(b, i) == b[0][i] # None /\ b[0][i] = b[1][i] /\ b[0][i] = b[2][i]
DiagLine(b) == b[0][0] # None /\ b[0][0] = b[1][1] /\ b[0][0] = b[2][2]
AntiLine(b) == b[0][2] # None /\ b[0][2] = b[1][1] /\ b[0][2] = b[2][0]

HasEmpty(b) == \E i \in Idx : \E j \in Idx : b[i][j] = None

\* The loop over i checks row i, then column i; the diagonals come after.
RECURSIVE LineScan(_, _)
LineScan(b, i) ==
    IF i > 2 THEN None
    ELSE IF RowLine(b, i) THEN b[i][0]
    ELSE IF ColLine(b, i) THEN b[0][i]
    ELSE LineScan(b, i + 1)

progress(s) ==
    LET b == s.board
        w == LineScan(b, 0)
    IN  IF w # None THEN Win(w)
        ELSE IF DiagLine(b) THEN Win(b[0][0])
        ELSE IF AntiLine(b) THEN Win(b[0][2])
        ELSE IF HasEmpty(b) THEN Ongoing
        ELSE Draw

\* possible_actions without the early return of lines 108-110.
possible_actions_NoWinCheck(s) ==
    SelectSeq(AllActions, LAMBDA a : s.board[a.row][a.col] = None)

possible_actions(s) ==
    IF IsWin(progress(s)) THEN <<>>
    ELSE SelectSeq(AllActions, LAMBDA a : s.board[a.row][a.col] = None)

\* next without the flip of line 125.
next_SameTurn(s, a) ==
    GameState([s.board EXCEPT ![a.row][a.col] = s.turn], s.turn)

next(s, a) ==
    GameState([s.board EXCEPT ![a.row][a.col] = s.turn], opposite(s.turn))

Range(q) == {q[i] : i \in 1 .. Len(q)}

Occupied(s) == Cardinality({a \in Range(AllActions) : s.board[a.row][a.col] # None})

\* main's initial state: the empty board, You to move.
EmptyBoard == GameState([i \in Idx |-> [j \in Idx |-> None]], You)

Successors(s) == {next(s, a) : a \in Range(possible_actions(s))}

RECURSIVE ReachFrom(_, _)
ReachFrom(frontier, acc) ==
    IF frontier = {} THEN acc
    ELSE ReachFrom(UNION {Successors(s) : s \in frontier} \ acc, acc \cup frontier)

\* The positions that build_next_states_recursively registers when started
\* on position s with an empty registry are among these.
Reachable(s) == ReachFrom({s}, {})

\* Positions of legal play from the empty board.
Positions == Reachable(EmptyBoard)

(***************************************************************************)
(* build_info: the ordered match on (turn, has_w, has_wd, has_wdl, has_wl, *)
(* has_d, has_dl, has_l).                                                  *)
(***************************************************************************)
\* build_info without the arm of line 151.
build_info_NoOpponentDrawArm(t, w, wd, wdl, wl, d, dl, l) ==
    IF t = You /\ w THEN "W"
    ELSE IF t = Opponent /\ w /\ ~wd /\ ~wdl /\ ~wl /\ ~d /\ ~dl /\ ~l THEN "W"
    ELSE IF t = You /\ ~w /\ ~wd /\ ~wdl /\ ~wl /\ ~d /\ ~dl /\ l THEN "L"
    ELSE IF t = Opponent /\ l THEN "L"
    ELSE IF ~w /\ ~wd /\ ~wdl /\ ~wl /\ d /\ ~dl /\ ~l THEN "D"
    ELSE IF t = Opponent /\ dl THEN "DL"
    ELSE IF ~w /\ ~wd /\ ~wdl /\ ~wl THEN "DL"
    ELSE IF ~wdl /\ ~wl /\ ~dl /\ ~l THEN "WD"
    ELSE IF ~wd /\ ~wdl /\ ~d /\ ~dl THEN "WL"
    ELSE "WDL"

\* build_info without the arm of line 153.
build_info_NoNeverWinArm(t, w, wd, wdl, wl, d, dl, l) ==
    IF t = You /\ w THEN "W"
    ELSE IF t = Opponent /\ w /\ ~wd /\ ~wdl /\ ~wl /\ ~d /\ ~dl /\ ~l THEN "W"
    ELSE IF t = You /\ ~w /\ ~wd /\ ~wdl /\ ~wl /\ ~d /\ ~dl /\ l THEN "L"
    ELSE IF t = Opponent /\ l THEN "L"
    ELSE IF ~w /\ ~wd /\ ~wdl /\ ~wl /\ d /\ ~dl /\ ~l THEN "D"
    ELSE IF t = Opponent /\ d THEN "DL"
    ELSE IF t = Opponent /\ dl THEN "DL"
    ELSE IF ~wdl /\ ~wl /\ ~dl /\ ~l THEN "WD"
    ELSE IF ~wd /\ ~wdl /\ ~d /\ ~dl THEN "WL"
    ELSE "WDL"

\* build_info with the catch-all arm of line 161 narrowed to the summary
\* with every flag set; any other summary that reaches it has no arm.
build_info_NoDefaultArm(t, w, wd, wdl, wl, d, dl, l) ==
    IF t = You /\ w THEN "W"
    ELSE IF t = Opponent /\ w /\ ~wd /\ ~wdl /\ ~wl /\ ~d /\ ~dl /\ ~l THEN "W"
    ELSE IF t = You /\ ~w /\ ~wd /\ ~wdl /\ ~wl /\ ~d /\ ~dl /\ l THEN "L"
    ELSE IF t = Opponent /\ l THEN "L"
    ELSE IF ~w /\ ~wd /\ ~wdl /\ ~wl /\ d /\ ~dl /\ ~l THEN "D"
    ELSE IF t = Opponent /\ d THEN "DL"
    ELSE IF t = Opponent /\ dl THEN "DL"
    ELSE IF ~w /\ ~wd /\ ~wdl /\ ~wl THEN "DL"
    ELSE IF ~wdl /\ ~wl /\ ~dl /\ ~l THEN "WD"
    ELSE IF ~wd /\ ~wdl /\ ~d /\ ~dl THEN "WL"
    ELSE IF w /\ wd /\ wdl /\ wl /\ d /\ dl /\ l THEN "WDL"
    ELSE "no arm"

\* build_info with the arm of line 141 matching any summary with has_w.
build_info_OpponentAnyWin(t, w, wd, wdl, wl, d, dl, l) ==
    IF t = You /\ w THEN "W"
    ELSE IF t = Opponent /\ w THEN "W"
    ELSE IF t = You /\ ~w /\ ~wd /\ ~wdl /\ ~wl /\ ~d /\ ~dl /\ l THEN "L"
    ELSE IF t = Opponent /\ l THEN "L"
    ELSE IF ~w /\ ~wd /\ ~wdl /\ ~wl /\ d /\ ~dl /\ ~l THEN "D"
    ELSE IF t = Opponent /\ d THEN "DL"
    ELSE IF t = Opponent /\ dl THEN "DL"
    ELSE IF ~w /\ ~wd /\ ~wdl /\ ~wl THEN "DL"
    ELSE IF ~wdl /\ ~wl /\ ~dl /\ ~l THEN "WD"
    ELSE IF ~wd /\ ~wdl /\ ~d /\ ~dl THEN "WL"
    ELSE "WDL"

\* build_info with the arm of line 148 not looking at has_w.
build_info_DrawIgnoresWin(t, w, wd, wdl, wl, d, dl, l) ==
    IF t = You /\ w THEN "W"
    ELSE IF t = Opponent /\ w /\ ~wd /\ ~wdl /\ ~wl /\ ~d /\ ~dl /\ ~l THEN "W"
    ELSE IF t = You /\ ~w /\ ~wd /\ ~wdl /\ ~wl /\ ~d /\ ~dl /\ l THEN "L"
    ELSE IF t = Opponent /\ l THEN "L"
    ELSE IF ~wd /\ ~wdl /\ ~wl /\ d /\ ~dl /\ ~l THEN "D"
    ELSE IF t = Opponent /\ d THEN "DL"
    ELSE IF t = Opponent /\ dl THEN "DL"
    ELSE IF ~w /\ ~wd /\ ~wdl /\ ~wl THEN "DL"
    ELSE IF ~wdl /\ ~wl /\ ~dl /\ ~l THEN "WD"
    ELSE IF ~wd /\ ~wdl /\ ~d /\ ~dl THEN "WL"
    ELSE "WDL"

build_info(t, w, wd, wdl, wl, d, dl, l) ==
    IF t = You /\ w THEN "W"
    ELSE IF t = Opponent /\ w /\ ~wd /\ ~wdl /\ ~wl /\ ~d /\ ~dl /\ ~l THEN "W"
    ELSE IF t = You /\ ~w /\ ~wd /\ ~wdl /\ ~wl /\ ~d /\ ~dl /\ l THEN "L"
    ELSE IF t = Opponent /\ l THEN "L"
    ELSE IF ~w /\ ~wd /\ ~wdl /\ ~wl /\ d /\ ~dl /\ ~l THEN "D"
    ELSE IF t = Opponent /\ d THEN "DL"
    ELSE IF t = Opponent /\ dl THEN "DL"
    ELSE IF ~w /\ ~wd /\ ~wdl /\ ~wl THEN "DL"
    ELSE IF ~wdl /\ ~wl /\ ~dl /\ ~l THEN "WD"
    ELSE IF ~wd /\ ~wdl /\ ~d /\ ~dl THEN "WL"
    ELSE "WDL"

(***************************************************************************)
(* The graph.  A node is identified by its allocation number (the position *)
(* of its record in nodes); Rc and Weak pointers are node numbers.         *)
(*   nodes      every GameStateGraphNode allocated so far                  *)
(*   map        the registry BTreeMap<GameState, Rc<..>>                   *)
(*   stack      the call stack of build_next_states_recursively and        *)
(*              build_info_recursively, innermost call last                *)
(*   classified the last summary handed to build_info with its result      *)
(*              (used only where build_info is exercised on its own)       *)
(***************************************************************************)
VARIABLES nodes, map, stack, classified

vars == <<nodes, map, stack, classified>>

\* No entry in the registry.
NoNode == 0

\* info_writes counts the executions of line 214 on the node, and
\* unbuilt_returns the returns of line 195 from calls on the node; the
\* program has no such fields.
GameStateGraphNode(s) ==
    [state |-> s, actions_from_here |-> <<>>, actions_to_here |-> <<>>,
     info |-> None, info_writes |-> 0, unbuilt_returns |-> 0]

\* The empty registry of line 268: a function with no keys.
EmptyMap == [s \in {} |-> NoNode]

\* map.get(&state)
MapGet(m, s) == IF s \in DOMAIN m THEN m[s] ELSE NoNode

\* The insert of line 228 left out.
MapInsertForgotten(m, s, n) == m

\* map.insert(state, node)
MapInsert(m, s, n) == (s :> n) @@ m

\* BTreeMap::insert(action, child) on actions_from_here.
InsertChild(afh, a, c) == (a :> c) @@ afh

Children(nd) == {nd.actions_from_here[a] : a \in DOMAIN nd.actions_from_here}

\* InfoOf with both winners labelled L.
InfoOfWinIsLoss(ns, n) ==
    LET has == {ns[c].info : c \in Children(ns[n])}
        pr == progress(ns[n].state)
    IN  IF pr = Ongoing
            THEN build_info(ns[n].state.turn, "W" \in has, "WD" \in has, "WDL" \in has,
                            "WL" \in has, "D" \in has, "DL" \in has, "L" \in has)
        ELSE IF pr = Draw THEN "D"
        ELSE "L"

\* The label build_info_recursively computes for node n once all children
\* of n carry a label (lines 198-213).
InfoOf(ns, n) ==
    LET has == {ns[c].info : c \in Children(ns[n])}
        pr == progress(ns[n].state)
    IN  IF pr = Ongoing
            THEN build_info(ns[n].state.turn, "W" \in has, "WD" \in has, "WDL" \in has,
                            "WL" \in has, "D" \in has, "DL" \in has, "L" \in has)
        ELSE IF pr = Draw THEN "D"
        ELSE IF pr = Win(You) THEN "W"
        ELSE "L"

\* The check of lines 166-169 left out.
AlreadyBuiltIgnored(ns, n) == FALSE

\* The check of lines 170-173 left out.
IncompleteIgnored(ns, n) == FALSE

\* The check of line 170 with actions_to_here in place of actions_from_here.
IncompleteToHere(ns, n) ==
    Len(possible_actions(ns[n].state)) # Len(ns[n].actions_to_here)

\* The check of line 170 as "fewer actions than children".
IncompleteReversed(ns, n) ==
    Len(possible_actions(ns[n].state)) < Cardinality(DOMAIN ns[n].actions_from_here)

\* The three early returns of build_info_recursively (lines 166-196).
AlreadyBuilt(ns, n) == ns[n].info # None

Incomplete(ns, n) ==
    Len(possible_actions(ns[n].state)) # Cardinality(DOMAIN ns[n].actions_from_here)

ChildUnbuilt(ns, n) == \E c \in Children(ns[n]) : ns[c].info = None

Finalizable(ns, n) ==
    ~AlreadyBuilt(ns, n) /\ ~Incomplete(ns, n) /\ ~ChildUnbuilt(ns, n)

\* Line 214 writing to a copy of info: the node keeps None.
SetInfoOnCopy(ns, n) ==
    [ns EXCEPT ![n].info_writes = @ + 1]

\* Line 214.
SetInfo(ns, n) ==
    [ns EXCEPT ![n].info = InfoOf(ns, n), ![n].info_writes = @ + 1]

\* Lines 166-196: a call that does not set the label returns and leaves the
\* graph as it is; a return of line 195 is counted.
EarlyReturn(ns, n) ==
    IF ~AlreadyBuilt(ns, n) /\ ~Incomplete(ns, n) /\ ChildUnbuilt(ns, n)
        THEN [ns EXCEPT ![n].unbuilt_returns = @ + 1]
    ELSE ns

\* The forward link with the back-reference pushed on the parent and
\* referring to the child.
LinkBackRefReversed(ns, n, a, c) ==
    [ns EXCEPT ![n].actions_from_here = InsertChild(@, a, c),
               ![n].actions_to_here = Append(@, c)]

\* The forward link with the back-reference pushed twice.
LinkBackRefTwice(ns, n, a, c) ==
    [ns EXCEPT ![n].actions_from_here = InsertChild(@, a, c),
               ![c].actions_to_here = Append(Append(@, n), n)]

\* The forward link without the push of lines 237 and 249-252.
LinkNoBackReference(ns, n, a, c) ==
    [ns EXCEPT ![n].actions_from_here = InsertChild(@, a, c)]

\* Lines 234-237 and 246-252: the forward link and the back-reference.
Link(ns, n, a, c) ==
    [ns EXCEPT ![n].actions_from_here = InsertChild(@, a, c),
               ![c].actions_to_here = Append(@, n)]

\* Lines 240-245: Rc::new of a node for next_state.
NewNode(ns, s) == Append(ns, GameStateGraphNode(s))

(***************************************************************************)
(* The two recursive functions as state transformers: on the node sequence *)
(* ns, and on the graph g = [nodes, map].                                  *)
(***************************************************************************)
\* The loop of line 216 staying on the same back-reference.
NextIndexStuck(i) == i

\* The loop of line 216 moving on to the next back-reference.
NextIndex(i) == i + 1

RECURSIVE build_info_recursively(_, _)
RECURSIVE InfoParents(_, _, _)
build_info_recursively(ns, n) ==
    IF Finalizable(ns, n) THEN InfoParents(SetInfo(ns, n), n, 1) ELSE EarlyReturn(ns, n)

\* The loop over node.actions_to_here of lines 216-218, from index i on.
InfoParents(ns, n, i) ==
    IF i > Len(ns[n].actions_to_here) THEN ns
    ELSE InfoParents(build_info_recursively(ns, ns[n].actions_to_here[i]), n, NextIndex(i))

RECURSIVE build_next_states_recursively(_, _)
RECURSIVE NextLoop(_, _, _)
build_next_states_recursively(g, n) ==
    IF MapGet(g.map, g.nodes[n].state) # NoNode THEN g
    ELSE LET g1 == [g EXCEPT !.map = MapInsert(@, g.nodes[n].state, n)]
             g2 == NextLoop(g1, n, possible_actions(g.nodes[n].state))
         IN  [g2 EXCEPT !.nodes = build_info_recursively(g2.nodes, n)]

\* The loop over actions of lines 231-254, for the actions still to do.
NextLoop(g, n, actions) ==
    IF actions = <<>> THEN g
    ELSE LET a == Head(actions)
             next_state == next(g.nodes[n].state, a)
             found == MapGet(g.map, next_state)
         IN  IF found # NoNode
                 THEN NextLoop([g EXCEPT !.nodes = Link(@, n, a, found)], n, Tail(actions))
             ELSE LET c == Len(g.nodes) + 1
                      g1 == [g EXCEPT !.nodes = Link(NewNode(@, next_state), n, a, c)]
                  IN  NextLoop(build_next_states_recursively(g1, c), n, Tail(actions))

(***************************************************************************)
(* Call frames.  A frame of build_next_states_recursively is at "entry"    *)
(* (line 225), in its "loop" (line 231, actions holds the actions still to *)
(* do) or at "ret" (after the call of line 255).  A frame of               *)
(* build_info_recursively is at "entry" (line 166) or in the loop over     *)
(* "parents" (line 216, i is the next index into actions_to_here).         *)
(***************************************************************************)
Frame(f, n, p, as, k) == [fn |-> f, node |-> n, pc |-> p, actions |-> as, i |-> k]
NextFrame(n) == Frame("next", n, "entry", <<>>, 0)
InfoFrame(n) == Frame("info", n, "entry", <<>>, 0)

Top == stack[Len(stack)]
Pop == SubSeq(stack, 1, Len(stack) - 1)
SetTop(f) == [stack EXCEPT ![Len(stack)] = f]
At(f, p) == stack # <<>> /\ Top.fn = f /\ Top.pc = p

RemoveAt(q, k) == SubSeq(q, 1, k - 1) \o SubSeq(q, k + 1, Len(q))

\* main, lines 259-269: the initial node for position s, an empty registry
\* and the call of build_next_states_recursively about to run.
Started(s) ==
    /\ nodes = <<GameStateGraphNode(s)>>
    /\ map = EmptyMap
    /\ stack = <<NextFrame(1)>>
    /\ classified = <<>>

Done == stack = <<>>

\* Lines 225-230.
Register ==
    /\ At("next", "entry")
    /\ LET n == Top.node
           s == nodes[n].state
       IN  IF MapGet(map, s) # NoNode
               THEN /\ stack' = Pop
                    /\ UNCHANGED map
           ELSE /\ map' = MapInsert(map, s, n)
                /\ stack' = SetTop([Top EXCEPT !.pc = "loop", !.actions = possible_actions(s)])
    /\ UNCHANGED <<nodes, classified>>

\* Lines 232-238, for the k-th of the actions still to do: the next state
\* is in the registry.
LinkExisting(k) ==
    /\ At("next", "loop")
    /\ k \in 1 .. Len(Top.actions)
    /\ LET n == Top.node
           a == Top.actions[k]
           found == MapGet(map, next(nodes[n].state, a))
       IN  /\ found # NoNode
           /\ nodes' = Link(nodes, n, a, found)
           /\ stack' = SetTop([Top EXCEPT !.actions = RemoveAt(@, k)])
    /\ UNCHANGED <<map, classified>>

\* Lines 232-233 and 240-253: the next state is new; recurse into it.
LinkNew(k) ==
    /\ At("next", "loop")
    /\ k \in 1 .. Len(Top.actions)
    /\ LET n == Top.node
           a == Top.actions[k]
           next_state == next(nodes[n].state, a)
           c == Len(nodes) + 1
       IN  /\ MapGet(map, next_state) = NoNode
           /\ nodes' = Link(NewNode(nodes, next_state), n, a, c)
           /\ stack' = Append(SetTop([Top EXCEPT !.actions = RemoveAt(@, k)]), NextFrame(c))
    /\ UNCHANGED <<map, classified>>

\* Line 255: the loop is over, call build_info_recursively(node).
CallInfo ==
    /\ At("next", "loop")
    /\ Top.actions = <<>>
    /\ stack' = Append(SetTop([Top EXCEPT !.pc = "ret"]), InfoFrame(Top.node))
    /\ UNCHANGED <<nodes, map, classified>>

\* Line 256.
ReturnNext ==
    /\ At("next", "ret")
    /\ stack' = Pop
    /\ UNCHANGED <<nodes, map, classified>>

\* Lines 166-196: one of the three early returns.
ReturnEarly ==
    /\ At("info", "entry")
    /\ ~Finalizable(nodes, Top.node)
    /\ nodes' = EarlyReturn(nodes, Top.node)
    /\ stack' = Pop
    /\ UNCHANGED <<map, classified>>

\* Lines 166-214: the label is set.
Finalize ==
    /\ At("info", "entry")
    /\ Finalizable(nodes, Top.node)
    /\ nodes' = SetInfo(nodes, Top.node)
    /\ stack' = SetTop([Top EXCEPT !.pc = "parents", !.i = 1])
    /\ UNCHANGED <<map, classified>>

\* Lines 216-217: call build_info_recursively on the next parent.
CallParent ==
    /\ At("info", "parents")
    /\ Top.i <= Len(nodes[Top.node].actions_to_here)
    /\ stack' = Append(SetTop([Top EXCEPT !.i = NextIndex(@)]),
                       InfoFrame(nodes[Top.node].actions_to_here[Top.i]))
    /\ UNCHANGED <<nodes, map, classified>>

\* Lines 218-219.
ReturnInfo ==
    /\ At("info", "parents")
    /\ Top.i > Len(nodes[Top.node].actions_to_here)
    /\ stack' = Pop
    /\ UNCHANGED <<nodes, map, classified>>

Empties(s) == Side * Side - Occupied(s)

Starts == {s \in Positions : Empties(s) <= MaxEmpty}

Init == \E s \in Starts : Started(s)

\* The program takes the actions in ascending (row, col) order.
Next ==
    \/ Register
    \/ LinkExisting(1)
    \/ LinkNew(1)
    \/ CallInfo
    \/ ReturnNext
    \/ ReturnEarly
    \/ Finalize
    \/ CallParent
    \/ ReturnInfo

Spec == Init /\ [][Next]_vars

\* The program is one thread that runs until main's call returns: a step
\* that can be taken is taken.
SpecFair == Init /\ [][Next]_vars /\ WF_vars(Next)

(***************************************************************************)
(* The same exploration with the actions of each node taken in any order.  *)
(***************************************************************************)
ShuffleStarts == {s \in Positions : Empties(s) <= MaxEmptyShuffle}

InitShuffle == \E s \in ShuffleStarts : Started(s)

NextShuffle ==
    \/ Register
    \/ \E k \in 1 .. Side * Side : LinkExisting(k)
    \/ \E k \in 1 .. Side * Side : LinkNew(k)
    \/ CallInfo
    \/ ReturnNext
    \/ ReturnEarly
    \/ Finalize
    \/ CallParent
    \/ ReturnInfo

SpecShuffle == InitShuffle /\ [][NextShuffle]_vars

(***************************************************************************)
(* main with the call of line 269 as one step: from the empty board, and   *)
(* from the positions with few empty cells.                                *)
(***************************************************************************)
MainStarts == {EmptyBoard} \cup {s \in Positions : Empties(s) <= MaxEmptyMain}

InitMain == \E s \in MainStarts : Started(s)

Explored(ns, m) == build_next_states_recursively([nodes |-> ns, map |-> m], 1)

Explore ==
    /\ stack = <<NextFrame(1)>>
    /\ LET g == Explored(nodes, map)
       IN  /\ nodes' = g.nodes
           /\ map' = g.map
    /\ stack' = <<>>
    /\ UNCHANGED classified

NextMain == Explore

SpecMain == InitMain /\ [][NextMain]_vars

(***************************************************************************)
(* build_info on its own: every mover with every combination of the seven  *)
(* presence flags.                                                         *)
(***************************************************************************)
InitBuildInfo ==
    /\ nodes = <<>>
    /\ map = EmptyMap
    /\ stack = <<>>
    /\ classified = <<>>

Classify ==
    /\ \E t \in Player : \E w, wd, wdl, wl, d, dl, l \in BOOLEAN :
          classified' = <<t, w, wd, wdl, wl, d, dl, l, build_info(t, w, wd, wdl, wl, d, dl, l)>>
    /\ UNCHANGED <<nodes, map, stack>>

NextBuildInfo == Classify

SpecBuildInfo == InitBuildInfo /\ [][NextBuildInfo]_vars

(***************************************************************************)
(* Properties.                                                             *)
(***************************************************************************)
NodeIds == 1 .. Len(nodes)

\* The position main (or the caller) started the exploration on.
Start == nodes[1].state

Labelled(n) == nodes[n].info # None

ActionsOf(n) == Range(possible_actions(nodes[n].state))

LinkedActions(n) == DOMAIN nodes[n].actions_from_here

\* The step-wise exploration ends in the graph and registry that the
\* recursive functions, applied in one go, produce.
StepwiseMatchesExplore ==
    Done => LET g == Explored(<<GameStateGraphNode(Start)>>, EmptyMap)
            IN  nodes = g.nodes /\ map = g.map

\* C1: when build_next_states_recursively has returned (in particular for
\* the empty board with You to move), every node in the registry, and every
\* node allocated, has a label.
C1_AllLabelledAtEnd ==
    Done => /\ \A s \in DOMAIN map : nodes[map[s]].info \in GameStateInfo
            /\ \A n \in NodeIds : nodes[n].info \in GameStateInfo

C1_Witness ==
    /\ Done
    /\ Start = EmptyBoard
    /\ Cardinality(DOMAIN map) > 1
    /\ \A s \in DOMAIN map : Labelled(map[s])

\* C2, as claimed: once exploration from the empty board with You to move
\* has finished, that position is labelled WD (Never Lose).
C2_EmptyBoardNeverLose ==
    (Done /\ Start = EmptyBoard) => nodes[1].info = "WD"

\* C2, amended: once exploration from the empty board with You to move has
\* finished, that position is labelled DL (Never Win).
C2_EmptyBoardNeverWin ==
    (Done /\ Start = EmptyBoard) => nodes[1].info = "DL"

C2_Witness ==
    /\ Done
    /\ MapGet(map, EmptyBoard) = 1
    /\ nodes[1].info = "DL"

\* The position of node n is won by the player who just moved.
JustWon(n) == progress(nodes[n].state) = Win(opposite(nodes[n].state.turn))

\* C3, as claimed: every node whose position is won by the player who just
\* moved is labelled L, whichever player that is.
C3_WonIsForcedLose ==
    \A n \in NodeIds : (JustWon(n) /\ Labelled(n)) => nodes[n].info = "L"

\* C3, amended: every node whose position is won by the player who just
\* moved is labelled by the winner, W when You won (Opponent to move) and L
\* when Opponent won (You to move); it has that label when exploration ends.
C3_WonLabelledByWinner ==
    \A n \in NodeIds :
        JustWon(n) =>
            /\ Done => Labelled(n)
            /\ Labelled(n) =>
                  nodes[n].info = (IF nodes[n].state.turn = Opponent THEN "W" ELSE "L")

C3_Witness ==
    /\ Done
    /\ \E n \in NodeIds : JustWon(n) /\ nodes[n].state.turn = Opponent /\ nodes[n].info = "W"
    /\ \E n \in NodeIds : JustWon(n) /\ nodes[n].state.turn = You /\ nodes[n].info = "L"

\* C4: at every step each position has at most one node, every registry
\* entry is the node of its key, and a child link under action a leads to a
\* node for state.next(a); at the end the registry's keys are exactly the
\* positions reachable from the start by legal actions, every node is
\* registered, and every child link under action a is the very node
\* registered for state.next(a).
C4_Dedup ==
    /\ \A i, j \in NodeIds : nodes[i].state = nodes[j].state => i = j
    /\ \A s \in DOMAIN map : map[s] \in NodeIds /\ nodes[map[s]].state = s
    /\ \A n \in NodeIds : \A a \in LinkedActions(n) :
          /\ nodes[n].actions_from_here[a] \in NodeIds
          /\ nodes[nodes[n].actions_from_here[a]].state = next(nodes[n].state, a)
    /\ Done =>
          /\ DOMAIN map = Reachable(Start)
          /\ \A n \in NodeIds : MapGet(map, nodes[n].state) = n
          /\ \A n \in NodeIds :
                /\ LinkedActions(n) = ActionsOf(n)
                /\ \A a \in LinkedActions(n) :
                      nodes[n].actions_from_here[a] = MapGet(map, next(nodes[n].state, a))

\* Exploration is over and some position was reached along two paths.
C4_Witness ==
    /\ Done
    /\ \E n \in NodeIds : Len(nodes[n].actions_to_here) >= 2

\* C5: once a node has a label, no step changes or clears it, and line 214
\* does not run on that node again.
C5_SingleAssignment ==
    [][\A n \in NodeIds :
          Labelled(n) => /\ nodes'[n].info = nodes[n].info
                         /\ nodes'[n].info_writes = nodes[n].info_writes]_vars

\* build_info_recursively is entered on a node that already has its label.
C5_Witness ==
    /\ At("info", "entry")
    /\ Labelled(Top.node)
    /\ nodes[Top.node].info_writes = 1

\* The position-to-label mapping of a node sequence.
LabelMap(ns) == {<<ns[i].state, ns[i].info>> : i \in 1 .. Len(ns)}

\* The nodes the program builds from position s, its actions in ascending order.
ProgramNodes(s) == Explored(<<GameStateGraphNode(s)>>, EmptyMap).nodes

\* C6: whatever order the actions of each node are taken in, exploration
\* ends with the position-to-label mapping the program's order gives.
C6_Confluence ==
    Done => LabelMap(nodes) = LabelMap(ProgramNodes(Start))

\* An exploration that ended after taking the actions in another order
\* than the program's, with a position reached along two paths.
C6_Witness ==
    /\ Done
    /\ nodes # ProgramNodes(Start)
    /\ \E n \in NodeIds : Len(nodes[n].actions_to_here) >= 2

\* C7: a node that has a label has a child link for every legal action of
\* its position, and every one of those children has a label.
C7_LabelledHasLabelledChildren ==
    \A n \in NodeIds :
        Labelled(n) =>
            /\ LinkedActions(n) = ActionsOf(n)
            /\ \A c \in Children(nodes[n]) : Labelled(c)

\* A node with several children got its label while exploration goes on.
C7_Witness ==
    /\ ~Done
    /\ \E n \in NodeIds : Labelled(n) /\ Cardinality(Children(nodes[n])) >= 2

\* C8: for each mover and every non-empty set of child labels, given as the
\* seven presence flags, build_info returns one of the seven labels.
C8_BuildInfoTotal ==
    (classified # <<>> /\ \E k \in 2 .. 8 : classified[k]) =>
        classified[9] \in GameStateInfo

\* The catch-all arm of line 161 answered.
C8_Witness ==
    /\ classified # <<>>
    /\ \E k \in 2 .. 8 : classified[k]
    /\ classified[9] = "WDL"

\* C9: a position with a completed line has no legal actions, and its node
\* never has a child.
C9_WonHasNoChildren ==
    \A n \in NodeIds :
        IsWin(progress(nodes[n].state)) =>
            /\ possible_actions(nodes[n].state) = <<>>
            /\ LinkedActions(n) = {}

\* The graph is built and holds a won position with empty cells left.
C9_Witness ==
    /\ Done
    /\ \E n \in NodeIds :
          /\ IsWin(progress(nodes[n].state))
          /\ HasEmpty(nodes[n].state.board)
          /\ nodes[n].actions_to_here # <<>>

\* The edge from position s under action a to position c fills the empty
\* cell of a with the mover of s, changes no other cell and flips the turn.
PlacesOne(s, a, c) ==
    /\ s.board[a.row][a.col] = None
    /\ c.board[a.row][a.col] = s.turn
    /\ \A i, j \in Idx : (i # a.row \/ j # a.col) => c.board[i][j] = s.board[i][j]
    /\ c.turn = opposite(s.turn)
    /\ Occupied(c) = Occupied(s) + 1

\* C10: every forward edge leads from a position with k occupied cells to
\* one with k+1 occupied cells and the opposite turn, the action's cell
\* having been empty and being the only cell changed; two edges in a row
\* raise the count by 2; the count rising along every edge, no path of
\* edges returns to its node.
C10_EdgesAddOneMark ==
    \A n \in NodeIds : \A a \in LinkedActions(n) :
        LET c == nodes[n].actions_from_here[a]
        IN  /\ PlacesOne(nodes[n].state, a, nodes[c].state)
            /\ \A b \in LinkedActions(c) :
                  Occupied(nodes[nodes[c].actions_from_here[b]].state)
                      = Occupied(nodes[n].state) + 2

\* The graph is built and holds two edges in a row.
C10_Witness ==
    /\ Done
    /\ \E n \in NodeIds : \E c \in Children(nodes[n]) : Children(nodes[c]) # {}

\* C11: exploration terminates: the call of build_next_states_recursively
\* made by main, with every nested call and every cascade of
\* build_info_recursively, eventually returns.
C11_Terminates == <>Done

\* Exploration returned after a cascade went through a node with two
\* back-references, three cells having been empty at the start.
C11_Witness ==
    /\ Done
    /\ Empties(Start) = 3
    /\ \E n \in NodeIds : Len(nodes[n].actions_to_here) >= 2 /\ nodes[n].info_writes = 1

\* Node n was reached along two paths: the second parent found it in the
\* registry and linked to it.
Shared(n) == Len(nodes[n].actions_to_here) >= 2

\* C12, as claimed: exploration from the empty board passes through a call
\* of build_info_recursively on a node whose children map is complete while
\* a child has no label, so that once it has returned some node has seen
\* the return of line 195.
C12_UnbuiltChildSeen ==
    (Done /\ Start = EmptyBoard) => \E n \in NodeIds : nodes[n].unbuilt_returns > 0

\* C12, amended: no call of build_info_recursively finds a complete
\* children map with an unlabelled child; the return of line 195 is never
\* taken, neither on the way nor by the end of exploration from the empty
\* board, shared children included.
C12_UnbuiltChildNeverSeen ==
    /\ \A n \in NodeIds : nodes[n].unbuilt_returns = 0
    /\ ~(At("info", "entry") /\ ~Incomplete(nodes, Top.node) /\ ChildUnbuilt(nodes, Top.node))

\* Exploration from the empty board is over; build_info_recursively ran on
\* a parent that linked to a child already in the registry.
C12_Witness ==
    /\ Done
    /\ Start = EmptyBoard
    /\ \E n \in NodeIds : \E c \in Children(nodes[n]) :
          /\ Shared(c)
          /\ nodes[c].actions_to_here[1] # n
          /\ nodes[n].info_writes = 1

\* The minimax value of a position for You: 1 when the position is won by
\* You, -1 when won by Opponent, 0 when drawn; otherwise the greatest value
\* of a successor when You is to move and the least when Opponent is.
Best(t, vs) ==
    IF t = You THEN CHOOSE v \in vs : \A u \in vs : u <= v
    ELSE CHOOSE v \in vs : \A u \in vs : v <= u

ValueFrom(s, val) ==
    LET pr == progress(s)
    IN  IF pr = Win(You) THEN 1
        ELSE IF pr = Win(Opponent) THEN 0 - 1
        ELSE IF pr = Draw THEN 0
        ELSE Best(s.turn, {val[c] : c \in Successors(s)})

\* The minimax values of the positions of S (closed under successors),
\* fullest boards first; val holds the values of the boards with more than
\* k occupied cells.
RECURSIVE Minimax(_, _, _)
Minimax(k, S, val) ==
    IF k < 0 THEN val
    ELSE LET level == {s \in S : Occupied(s) = k}
         IN  Minimax(k - 1, S, [s \in level |-> ValueFrom(s, val)] @@ val)

MinimaxOf(S) == Minimax(Side * Side, S, [s \in {} |-> 0])

InfosOfChildren(n) == {nodes[c].info : c \in Children(nodes[n])}

\* C13: once the graph is built, a node is labelled W exactly when You has
\* a winning strategy from its position (minimax value 1) and L exactly
\* when Opponent has one (minimax value -1); a You-to-move node with a W
\* child is W and an Opponent-to-move node with an L child is L.
C13_WinLossIsMinimax ==
    Done =>
        LET val == MinimaxOf(Reachable(Start))
        IN  \A n \in NodeIds :
                /\ nodes[n].info = "W" <=> val[nodes[n].state] = 1
                /\ nodes[n].info = "L" <=> val[nodes[n].state] = 0 - 1
                /\ (nodes[n].state.turn = You /\ "W" \in InfosOfChildren(n))
                       => nodes[n].info = "W"
                /\ (nodes[n].state.turn = Opponent /\ "L" \in InfosOfChildren(n))
                       => nodes[n].info = "L"

\* The graph of the empty board is built; a You-to-move node is W next to
\* an L child, an Opponent-to-move node is L next to a W child.
C13_Witness ==
    /\ Done
    /\ Start = EmptyBoard
    /\ \E n \in NodeIds : /\ nodes[n].state.turn = You
                           /\ {"W", "L"} \subseteq InfosOfChildren(n)
                           /\ nodes[n].info = "W"
    /\ \E n \in NodeIds : /\ nodes[n].state.turn = Opponent
                           /\ {"W", "L"} \subseteq InfosOfChildren(n)
                           /\ nodes[n].info = "L"

\* A terminal position: no legal action.
Terminal(s) == possible_actions(s) = <<>>

\* For the positions of S (closed under successors), fullest boards first:
\* whether every terminal position reachable from the position is a draw.
\* A terminal position reaches itself only; another position reaches what
\* its successors reach.
RECURSIVE OnlyDraws(_, _, _)
OnlyDraws(k, S, val) ==
    IF k < 0 THEN val
    ELSE LET level == {s \in S : Occupied(s) = k}
             here == [s \in level |->
                         IF Terminal(s) THEN progress(s) = Draw
                         ELSE \A c \in Successors(s) : val[c]]
         IN  OnlyDraws(k - 1, S, here @@ val)

OnlyDrawsOf(S) == OnlyDraws(Side * Side, S, [s \in {} |-> TRUE])

\* C14: once the graph is built, a node is labelled D exactly when every
\* terminal position reachable from its position is a draw; a node that
\* reaches a won position is not labelled D.
C14_DrawIffOnlyDraws ==
    Done =>
        LET val == OnlyDrawsOf(Reachable(Start))
        IN  \A n \in NodeIds : nodes[n].info = "D" <=> val[nodes[n].state]

\* The graph of the empty board is built; a node with several children is
\* D, and a node with a D child is not, a won position being in its reach.
C14_Witness ==
    /\ Done
    /\ Start = EmptyBoard
    /\ \E n \in NodeIds : nodes[n].info = "D" /\ Cardinality(Children(nodes[n])) >= 2
    /\ \E n \in NodeIds : nodes[n].info = "DL" /\ "D" \in InfosOfChildren(n)

\* The fields the program keeps in a node.
ProgramFields(nd) ==
    [state |-> nd.state, actions_from_here |-> nd.actions_from_here,
     actions_to_here |-> nd.actions_to_here, info |-> nd.info]

\* A call of build_info_recursively is at its entry on a node that has a
\* label, or fewer child links than legal actions, or an unlabelled child.
NotFinalizing ==
    /\ At("info", "entry")
    /\ \/ nodes[Top.node].info # None
       \/ Cardinality(LinkedActions(Top.node)) < Len(possible_actions(nodes[Top.node].state))
       \/ \E c \in Children(nodes[Top.node]) : nodes[c].info = None

\* C15: a call of build_info_recursively that does not finalize returns at
\* once: no node is added, no node's label, children map or back-references
\* change, the registry is unchanged, and no call on a parent is made.
C15_NoOpWhenNotFinalizing ==
    [][NotFinalizing =>
          /\ Len(nodes') = Len(nodes)
          /\ \A n \in NodeIds : ProgramFields(nodes'[n]) = ProgramFields(nodes[n])
          /\ map' = map
          /\ stack' = Pop]_vars

\* A cascade calls build_info_recursively on a parent whose loop over the
\* actions is still running: its children map is short of a link.
C15_Witness ==
    /\ Len(stack) >= 2
    /\ At("info", "entry")
    /\ stack[Len(stack) - 1].fn = "info"
    /\ nodes[Top.node].info = None
    /\ Cardinality(LinkedActions(Top.node)) < Len(possible_actions(nodes[Top.node].state))

\* How often node p occurs among the back-references of node c.
BackRefs(c, p) ==
    Cardinality({i \in 1 .. Len(nodes[c].actions_to_here) : nodes[c].actions_to_here[i] = p})

\* The actions under which node p links to node c.
LinksTo(p, c) == {a \in LinkedActions(p) : nodes[p].actions_from_here[a] = c}

\* C16: in every state node c holds node p among its back-references once
\* for each action under which p links to c, and holds no other
\* back-reference; every back-reference is a node that exists and is the
\* registry's node for its position, so the registry keeps it alive and
\* the upgrade of line 217 succeeds.
C16_LinksMatchBackRefs ==
    /\ \A c \in NodeIds : \A p \in NodeIds : BackRefs(c, p) = Cardinality(LinksTo(p, c))
    /\ \A c \in NodeIds : \A i \in 1 .. Len(nodes[c].actions_to_here) :
          LET p == nodes[c].actions_to_here[i]
          IN  p \in NodeIds /\ MapGet(map, nodes[p].state) = p

\* A cascade follows a back-reference while some node has two parents.
C16_Witness ==
    /\ Len(stack) >= 2
    /\ At("info", "entry")
    /\ stack[Len(stack) - 1].fn = "info"
    /\ Top.node \in Range(nodes[stack[Len(stack) - 1].node].actions_to_here)
    /\ \E c \in NodeIds : Shared(c)

\* The calls of build_next_states_recursively, and those of
\* build_info_recursively, that have not returned yet.
NextFrames == {k \in 1 .. Len(stack) : stack[k].fn = "next"}
InfoFrames == {k \in 1 .. Len(stack) : stack[k].fn = "info"}

\* C17: neither the nested calls of build_next_states_recursively nor the
\* nested calls of build_info_recursively in one cascade number more than
\* the empty cells of the starting position plus one, which is at most the
\* number of cells plus one; a nested exploration call is on a position
\* with one more occupied cell than its caller's, a nested cascade call on
\* a position with one fewer.
C17_DepthBounded ==
    /\ Cardinality(NextFrames) <= Empties(Start) + 1
    /\ Cardinality(InfoFrames) <= Empties(Start) + 1
    /\ Empties(Start) + 1 <= Side * Side + 1
    /\ \A k \in 1 .. Len(stack) - 1 :
          /\ stack[k + 1].fn = "next" =>
                /\ stack[k].fn = "next"
                /\ Occupied(nodes[stack[k + 1].node].state) = Occupied(nodes[stack[k].node].state) + 1
          /\ stack[k].fn = "info" =>
                /\ stack[k + 1].fn = "info"
                /\ Occupied(nodes[stack[k + 1].node].state) = Occupied(nodes[stack[k].node].state) - 1

\* The exploration is as deep as the starting position allows and a
\* cascade has gone up from the deepest position to its parent.
C17_Witness ==
    /\ Empties(Start) >= 3
    /\ Cardinality(NextFrames) = Empties(Start) + 1
    /\ Cardinality(InfoFrames) >= 2

\* The labels the nodes carry.
InfosAssigned == {nodes[n].info : n \in NodeIds} \ {None}

\* C18: no node ever carries the label WD, WL or WDL; once exploration has
\* finished every node carries one of W, D, DL and L.
C18_FourLabelsOnly ==
    /\ InfosAssigned \cap {"WD", "WL", "WDL"} = {}
    /\ Done => \A n \in NodeIds : nodes[n].info \in {"W", "D", "DL", "L"}

\* Exploration from the empty board has finished and each of the four
\* labels is carried by some node.
C18_Witness ==
    /\ Done
    /\ Start = EmptyBoard
    /\ InfosAssigned = {"W", "D", "DL", "L"}

\* C19: a step that returns from build_next_states_recursively leaves the
\* node of that call labelled, and a step that links a parent to a child
\* found in the registry finds that child labelled.
C19_LabelledOnReturnAndOnReuse ==
    [][/\ (stack # <<>> /\ Top.fn = "next" /\ stack' = Pop) =>
             nodes'[Top.node].info # None
       /\ (At("next", "loop") /\ Top.actions # <<>> /\ Len(nodes') = Len(nodes)) =>
             Labelled(MapGet(map, next(nodes[Top.node].state, Top.actions[1])))]_vars

\* The call of build_next_states_recursively on a node is about to return;
\* the node was linked to a child that an earlier parent had created.
C19_Witness ==
    /\ Len(stack) >= 2
    /\ At("next", "ret")
    /\ Labelled(Top.node)
    /\ \E c \in Children(nodes[Top.node]) :
          /\ Shared(c)
          /\ nodes[c].actions_to_here[1] # Top.node

\* The cascade is a chain down the path of the exploration: the j-th
\* nested call of build_info_recursively is on the node of the j-th
\* innermost call of build_next_states_recursively.
ChainOnPath ==
    LET m == Cardinality(NextFrames)
    IN  \A k \in InfoFrames :
          /\ k > m
          /\ 2 * m - k + 1 >= 1
          /\ stack[k].node = stack[2 * m - k + 1].node

\* The children node n created itself, in the order of their creation.
CreatedBy(n) == {c \in Children(nodes[n]) : nodes[c].actions_to_here[1] = n}

\* C20: a step that sets the label of a node finds the node with no
\* back-reference if it is the initial node and otherwise with exactly one,
\* to the node whose exploration created it; every cascade call is on a
\* node of the current exploration path, innermost first; and a label set
\* by a cascade call is set from the cascade of the last child the node
\* created, which has no other parent, after the node's last action.
C20_CascadeIsChain ==
    [][/\ ChainOnPath
       /\ (At("info", "entry") /\ nodes'[Top.node].info_writes # nodes[Top.node].info_writes) =>
             LET n == Top.node
                 below == stack[Len(stack) - 1]
                 own == CHOOSE k \in NextFrames : stack[k].node = n
             IN  /\ \E k \in NextFrames : stack[k].node = n
                 /\ IF n = 1 THEN nodes[n].actions_to_here = <<>>
                    ELSE nodes[n].actions_to_here = <<stack[own - 1].node>>
                 /\ below.fn = "next" => below.node = n /\ below.pc = "ret"
                 /\ below.fn = "info" =>
                       /\ below.node \in CreatedBy(n)
                       /\ \A c \in CreatedBy(n) : c <= below.node
                       /\ nodes[below.node].actions_to_here = <<n>>
                       /\ stack[own].pc = "loop"
                       /\ stack[own].actions = <<>>]_vars

\* A node has just been labelled by the cascade of the last child it
\* created; that child had linked to a child of its own that was in the
\* registry already, and was labelled by the final call of its exploration.
C20_Witness ==
    /\ Len(stack) >= 3
    /\ At("info", "parents")
    /\ Top.i = 1
    /\ stack[Len(stack) - 1].fn = "info"
    /\ stack[Len(stack) - 2].fn = "next"
    /\ \E c \in Children(nodes[stack[Len(stack) - 1].node]) :
          nodes[c].actions_to_here[1] # stack[Len(stack) - 1].node

====
